---- MODULE Spec2Model ----
(***************************************************************************)
(* A model of the Charlotte ("Chat Stealth") backend, src/backend/server.py *)
(*                                                                         *)
(* The server is one asyncio process.  Every request handler and every     *)
(* websocket connection is a coroutine; control passes from one coroutine  *)
(* to another only at an `await`.  An action of this model is the code of  *)
(* one coroutine from one await to the next.  A store call (`await db...`) *)
(* takes effect atomically when the action that resumes from it runs; a    *)
(* handler's first store call is taken together with the handler's start.  *)
(*                                                                         *)
(* Time is counted in minutes (datetime.utcnow()).                         *)
(* uuid4() returns a value no other call returns: the id made by request   *)
(* r is r itself.                                                          *)
(* Fields of stored documents that no handler reads back                   *)
(* (creator_nickname, upgraded_at, secret_upgraded, message_type,          *)
(* file_name, sender_nickname) are left out of the records.                *)
(***************************************************************************)
EXTENDS Integers, Sequences, FiniteSets, TLC

\* ------------------------------------------------------------------ bounds
MaxWs == 3          \* websocket connections attempted (gateway)
MaxJoiners == 2     \* connections attempted at a nearly full session (admission)
MaxDrops == 1       \* peers that drop their transport
MaxFrames == 1      \* client frames handled over all connections
MaxPresenceFrames == 2  \* client frames handled where presence is followed
MaxPresenceWs == 2  \* connections attempted where presence is followed
MaxReq == 2         \* HTTP requests handled
MaxPeers == 2       \* connections registered while the requests are handled
MaxUpgrades == 1    \* upgrade requests handled beside the joins
MaxTicks == 1       \* times the clock is seen to advance
MaxStoreErrors == 1 \* store calls that raise
MaxStalls == 1      \* peers that stop taking data

\* ------------------------------------------------------- program constants
FreeTtl == 10            \* create_session: "message_ttl_minutes": 10
FreeCap == 5             \* create_session: "max_participants": 5
ProTtl == 60             \* secret_upgrade / stripe_webhook: 60
ProCap == 50             \* secret_upgrade / stripe_webhook: 50
SessionLifetime == 1440  \* timedelta(hours=24), in minutes
DefaultMaxParticipants == 5  \* SessionResponse: max_participants: int = 5
ListLimit == 100         \* get_messages: to_list(100)
TestedFreeTtl == 5       \* backend_test.py: data.get("message_ttl_minutes") == 5

None == "None"
Uids == {"u1"}
Nicks == {"ann"}
DefaultNick == "Anonimo"       \* data.get("nickname", "Anônimo")
Placeholder == "Alguem"        \* current_nickname or "Alguém"
\* generate_session_code(): the codes random.choices is seen to draw
GenCodes == {<<"A", "A", "A", "A", "A", "A">>, <<"A", "A", "A", "A", "A", "B">>}
\* the session that exists when the model starts, and an id no uuid4 call made
FirstSession == 1
MissingSession == 0

VARIABLES
    now,                 \* datetime.utcnow()
    ticks,               \* times the clock has advanced
    sessions,            \* db.sessions : set of session documents
    messages,            \* db.messages : set of message documents
    active_connections,  \* manager.active_connections : session_id -> list of websockets
    user_nicknames,      \* user_nicknames : session_id -> (sender_id -> nickname)
    ws,                  \* per websocket_endpoint coroutine: position and locals
    broken,              \* websockets whose transport the peer has dropped
    inbox,               \* per websocket: the events its peer was sent, in order
    req,                 \* per HTTP request handler coroutine: position and locals
    bcast,               \* per coroutine: the manager.broadcast call it is in (or made last)
    frames,              \* number of client frames still to be handled
    sweeper,             \* the cleanup_expired_messages task: position, last log, errors
    stalled              \* websockets whose peer has stopped taking data

vars == <<now, ticks, sessions, messages, active_connections, user_nicknames, ws,
          broken, inbox, req, bcast, frames, sweeper, stalled>>

WsIds == DOMAIN ws
ReqIds == DOMAIN req
Tasks == DOMAIN bcast

\* ------------------------------------------------------------ list helpers
RECURSIVE Remove(_, _)
\* list.remove(x): drops the first occurrence of x
Remove(list, x) ==
    IF list = <<>> THEN <<>>
    ELSE IF Head(list) = x THEN Tail(list)
    ELSE <<Head(list)>> \o Remove(Tail(list), x)

Range(list) == {list[i] : i \in 1..Len(list)}

Without(f, k) == [x \in DOMAIN f \ {k} |-> f[x]]

\* ------------------------------------------------------ ConnectionManager
\* ConnectionManager.connect, after `await websocket.accept()`
Connect(ac, w, s) ==
    IF s \in DOMAIN ac THEN [ac EXCEPT ![s] = Append(@, w)]
    ELSE ac @@ (s :> <<w>>)

\* the membership test is left out: a websocket that is not listed takes the
\* last listed one out
DisconnectUnguarded(ac, w, s) ==
    IF s \in DOMAIN ac
    THEN LET list == IF w \in Range(ac[s]) THEN Remove(ac[s], w)
                     ELSE SubSeq(ac[s], 1, Len(ac[s]) - 1)
         IN IF list = <<>> THEN Without(ac, s) ELSE [ac EXCEPT ![s] = list]
    ELSE ac

\* the emptied list is left under its key
DisconnectKeepsKey(ac, w, s) ==
    IF s \in DOMAIN ac
    THEN [ac EXCEPT ![s] = IF w \in Range(@) THEN Remove(@, w) ELSE @]
    ELSE ac

\* ConnectionManager.disconnect
Disconnect(ac, w, s) ==
    IF s \in DOMAIN ac
    THEN LET list == IF w \in Range(ac[s]) THEN Remove(ac[s], w) ELSE ac[s]
         IN IF list = <<>> THEN Without(ac, s) ELSE [ac EXCEPT ![s] = list]
    ELSE ac

RECURSIVE DisconnectAll(_, _, _)
\* `for dc in dead_connections: self.disconnect(dc, session_id)`
DisconnectAll(ac, dead, s) ==
    IF dead = <<>> THEN ac
    ELSE DisconnectAll(Disconnect(ac, Head(dead), s), Tail(dead), s)

\* ConnectionManager.get_participant_count
GetParticipantCount(ac, s) == IF s \in DOMAIN ac THEN Len(ac[s]) ELSE 0

\* ------------------------------------------------------------------ store
\* db.sessions.find_one({"id": s}) : the matching documents (empty = None)
FindSession(s) == {d \in sessions : d.id = s}

\* the expiry filter is left out
FindAnyCode(code, t) == {d \in sessions : d.code = code}

\* db.sessions.find_one({"code": code, "expires_at": {"$gt": t}})
FindLiveCode(code, t) == {d \in sessions : d.code = code /\ d.expires_at > t}

\* the document create_session builds
FreeSession(id, code, t) ==
    [id |-> id, code |-> code, is_pro |-> FALSE, message_ttl_minutes |-> FreeTtl,
     max_participants |-> FreeCap, created_at |-> t, expires_at |-> t + SessionLifetime]

\* the update flips the tier: a Pro session goes back to the free values
UpgradeOneToggles(docs, s) ==
    {IF d.id = s
     THEN IF d.is_pro
          THEN [d EXCEPT !.is_pro = FALSE, !.message_ttl_minutes = FreeTtl,
                         !.max_participants = FreeCap]
          ELSE [d EXCEPT !.is_pro = TRUE, !.message_ttl_minutes = ProTtl,
                         !.max_participants = ProCap]
     ELSE d : d \in docs}

\* db.sessions.update_one({"id": s}, {"$set": {is_pro, message_ttl_minutes, max_participants}})
UpgradeOne(docs, s) ==
    {IF d.id = s
     THEN [d EXCEPT !.is_pro = TRUE, !.message_ttl_minutes = ProTtl,
                    !.max_participants = ProCap]
     ELSE d : d \in docs}

\* the event announces the free cap
SessionUpgradedFreeCap ==
    [type |-> "session_upgraded", is_pro |-> TRUE, message_ttl_minutes |-> ProTtl,
     max_participants |-> FreeCap]

\* the event both upgrade paths broadcast
SessionUpgraded ==
    [type |-> "session_upgraded", is_pro |-> TRUE, message_ttl_minutes |-> ProTtl,
     max_participants |-> ProCap]

\* ----------------------------------------------------------- broadcasting
\* A manager.broadcast call.  The for loop iterates the live list object of
\* the session: `idx` is the list iterator's index, `cur` the connection whose
\* send_json is being awaited, `dead` is dead_connections.  `detached` is set
\* when the session's key is deleted from active_connections during the call:
\* the iterator then holds a list object that is empty and no longer in the dict.
\* `snap`, `got` and `mutated` record the list at call time, the connections
\* the event was delivered to, and whether another coroutine changed the list
\* during the call; the code has no such fields.
NoBcast == [active |-> FALSE, sid |-> MissingSession, msg |-> [type |-> None], idx |-> 0,
            cur |-> 0, dead |-> <<>>, detached |-> FALSE, snap |-> <<>>, got |-> {},
            mutated |-> FALSE]

\* the call `manager.broadcast(s, msg)` up to its first await
BroadcastCall(ac, s, msg) ==
    IF s \in DOMAIN ac
    THEN [active |-> TRUE, sid |-> s, msg |-> msg, idx |-> 1, cur |-> ac[s][1],
          dead |-> <<>>, detached |-> FALSE, snap |-> ac[s], got |-> {},
          mutated |-> FALSE]
    ELSE [NoBcast EXCEPT !.sid = s, !.msg = msg]

\* `await connection.send_json(message)` resumes: delivered, or raised and
\* the bare `except:` collected the connection
AfterSend(b) ==
    IF b.cur \in broken THEN [b EXCEPT !.dead = Append(@, b.cur)]
    ELSE [b EXCEPT !.got = @ \cup {b.cur}]

Delivered(b) == IF b.cur \in broken THEN inbox
                ELSE [inbox EXCEPT ![b.cur] = Append(@, b.msg)]

\* `await connection.send_json(message)` can resume: the peer takes the data,
\* or the transport has dropped and the send raises
SendEnds(b) == b.cur \in broken \/ b.cur \notin stalled

\* a failed send ends the loop
HasNextUnlessFailed(b) == /\ ~b.detached
                          /\ b.cur \notin broken
                          /\ b.sid \in DOMAIN active_connections
                          /\ b.idx < Len(active_connections[b.sid])

\* the list iterator has another element
HasNext(b) == /\ ~b.detached
              /\ b.sid \in DOMAIN active_connections
              /\ b.idx < Len(active_connections[b.sid])

\* `self.active_connections[session_id]`, the empty list for a missing key
ListOf(ac, s) == IF s \in DOMAIN ac THEN ac[s] ELSE <<>>

\* the registry becomes ac: keys deleted from active_connections detach the
\* broadcasts iterating them, and `mutated` records that the list a running
\* broadcast iterates was changed by another coroutine
Detach(bc, ac) ==
    [t \in DOMAIN bc |->
        IF bc[t].active
        THEN [bc[t] EXCEPT !.detached = @ \/ bc[t].sid \notin DOMAIN ac,
                           !.mutated = @ \/ ListOf(ac, bc[t].sid) #
                                              ListOf(active_connections, bc[t].sid)]
        ELSE bc[t]]

\* one more iteration of the for loop: the awaited send ends, the next begins
BroadcastSend(t) ==
    /\ bcast[t].active
    /\ SendEnds(bcast[t])
    /\ HasNext(bcast[t])
    /\ LET b == AfterSend(bcast[t])
       IN bcast' = [bcast EXCEPT ![t] =
                       [b EXCEPT !.idx = @ + 1,
                                 !.cur = active_connections[b.sid][b.idx + 1]]]
    /\ inbox' = Delivered(bcast[t])
    /\ UNCHANGED <<stalled, now, ticks, sessions, messages, active_connections, user_nicknames,
                   ws, broken, req, frames, sweeper>>

\* the last send ends, the loop ends, the dead connections are disconnected:
\* the registry and the broadcast records when manager.broadcast returns
ReturnRegistry(t) ==
    DisconnectAll(active_connections, AfterSend(bcast[t]).dead, bcast[t].sid)

ReturnBcast(t) ==
    Detach([bcast EXCEPT ![t] = [AfterSend(bcast[t]) EXCEPT !.active = FALSE]],
           ReturnRegistry(t))

\* ------------------------------------------------------ websocket_endpoint
\* pc: "idle" (no attempt yet), "accept" (in manager.connect, awaiting
\* websocket.accept), "full" (awaiting websocket.accept on the refusal path),
\* "receive" (awaiting receive_json), "bcast" (in manager.broadcast; ret says
\* where the handler continues), "closed" (the coroutine has ended; `close`
\* says how).  `data` is the frame received last, a key it lacks being None.
NoData == [type |-> None, sender_id |-> None, nickname |-> None, is_typing |-> None]

WsIdle == [pc |-> "idle", sid |-> MissingSession, max_participants |-> 0, ret |-> None,
           current_user_id |-> None, current_nickname |-> None, close |-> None,
           data |-> NoData]

\* the capacity test off by one
AtCapacityOffByOne(current_count, max_participants) == current_count > max_participants

\* `if current_count >= max_participants`
AtCapacity(current_count, max_participants) == current_count >= max_participants

\* the session is not looked up and the default cap is taken
WsLookupUnchecked(w, s) ==
    /\ ws[w].pc = "idle"
    /\ \A v \in WsIds : v < w => ws[v].pc # "idle"
    /\ LET max_participants == IF FindSession(s) = {} THEN FreeCap
                               ELSE (CHOOSE d \in FindSession(s) : TRUE).max_participants
           current_count == GetParticipantCount(active_connections, s)
       IN ws' = [ws EXCEPT ![w] =
                    [@ EXCEPT !.pc = IF AtCapacity(current_count, max_participants)
                                     THEN "full" ELSE "accept",
                              !.sid = s,
                              !.max_participants = max_participants]]
    /\ UNCHANGED <<stalled, now, ticks, sessions, messages, active_connections, user_nicknames,
                   broken, inbox, req, bcast, frames, sweeper>>

\* the handler from its start to `await websocket.accept()`
WsLookup(w, s) ==
    /\ ws[w].pc = "idle"
    /\ \A v \in WsIds : v < w => ws[v].pc # "idle"
    /\ IF FindSession(s) = {}
       THEN ws' = [ws EXCEPT ![w] = [@ EXCEPT !.pc = "closed", !.sid = s,
                                                !.close = "not_found"]]
       ELSE LET session == CHOOSE d \in FindSession(s) : TRUE
                max_participants == session.max_participants
                current_count == GetParticipantCount(active_connections, s)
            IN ws' = [ws EXCEPT ![w] =
                         [@ EXCEPT !.pc = IF AtCapacity(current_count, max_participants)
                                          THEN "full" ELSE "accept",
                                   !.sid = s,
                                   !.max_participants = max_participants]]
    /\ UNCHANGED <<stalled, now, ticks, sessions, messages, active_connections, user_nicknames,
                   broken, inbox, req, bcast, frames, sweeper>>

\* the refusal path: accept, one SESSION_FULL error event, close(4003);
\* with the peer gone the accept raises and the handler ends
WsRefuse(w) ==
    /\ ws[w].pc = "full"
    /\ IF w \in broken
       THEN /\ ws' = [ws EXCEPT ![w] = [@ EXCEPT !.pc = "closed", !.close = "aborted"]]
            /\ inbox' = inbox
       ELSE /\ ws' = [ws EXCEPT ![w] = [@ EXCEPT !.pc = "closed", !.close = "full"]]
            /\ inbox' = [inbox EXCEPT ![w] =
                            Append(@, [type |-> "error", code |-> "SESSION_FULL",
                                       max_participants |-> ws[w].max_participants])]
    /\ UNCHANGED <<stalled, now, ticks, sessions, messages, active_connections, user_nicknames,
                   broken, req, bcast, frames, sweeper>>

\* manager.connect after the accept: the connection is registered
WsAccept(w) ==
    /\ ws[w].pc = "accept"
    /\ active_connections' = Connect(active_connections, w, ws[w].sid)
    /\ ws' = [ws EXCEPT ![w] = [@ EXCEPT !.pc = "receive"]]
    /\ bcast' = Detach(bcast, active_connections')
    /\ UNCHANGED <<stalled, now, ticks, sessions, messages, user_nicknames, broken, inbox, req,
                   frames, sweeper>>

\* `user_nicknames[session_id][current_user_id] = current_nickname`
SetNickname(un, s, uid, nick) ==
    LET u == IF s \in DOMAIN un THEN un ELSE un @@ (s :> <<>>)
    IN [u EXCEPT ![s] = IF uid \in DOMAIN @ THEN [@ EXCEPT ![uid] = nick]
                        ELSE @ @@ (uid :> nick)]

\* a "join" frame
WsJoin(w, sender_id, nickname) ==
    /\ ws[w].pc = "receive"
    /\ w \notin broken
    /\ frames > 0
    /\ frames' = frames - 1
    /\ LET s == ws[w].sid
           nick == IF nickname = None THEN DefaultNick ELSE nickname
           b == BroadcastCall(active_connections, s,
                    [type |-> "user_joined", nickname |-> nick, sender_id |-> sender_id,
                     count |-> GetParticipantCount(active_connections, s),
                     max_participants |-> ws[w].max_participants])
       IN /\ user_nicknames' = SetNickname(user_nicknames, s, sender_id, nick)
          /\ bcast' = [bcast EXCEPT ![w] = b]
          /\ ws' = [ws EXCEPT ![w] =
                       [@ EXCEPT !.pc = IF b.active THEN "bcast" ELSE "receive",
                                 !.ret = "receive",
                                 !.data = [NoData EXCEPT !.type = "join",
                                                         !.sender_id = sender_id,
                                                         !.nickname = nickname],
                                 !.current_user_id = sender_id,
                                 !.current_nickname = nick]]
    /\ UNCHANGED <<stalled, now, ticks, sessions, messages, active_connections, broken, inbox, req, sweeper>>

\* the flag is not relayed
TypingEventFlagDropped(data) ==
    [type |-> "typing", sender_id |-> data.sender_id, nickname |-> data.nickname,
     is_typing |-> "false"]

\* the event the "typing" branch builds from the frame; the JSON booleans are
\* written "true" and "false", an absent key reads as False
TypingEvent(data) ==
    [type |-> "typing", sender_id |-> data.sender_id, nickname |-> data.nickname,
     is_typing |-> IF data.is_typing = None THEN "false" ELSE data.is_typing]

\* a "typing" frame
WsTyping(w, sender_id, nickname, is_typing) ==
    /\ ws[w].pc = "receive"
    /\ w \notin broken
    /\ frames > 0
    /\ frames' = frames - 1
    /\ LET data == [type |-> "typing", sender_id |-> sender_id, nickname |-> nickname,
                    is_typing |-> is_typing]
           b == BroadcastCall(active_connections, ws[w].sid, TypingEvent(data))
       IN /\ bcast' = [bcast EXCEPT ![w] = b]
          /\ ws' = [ws EXCEPT ![w] =
                       [@ EXCEPT !.pc = IF b.active THEN "bcast" ELSE "receive",
                                 !.ret = "receive",
                                 !.data = data]]
    /\ UNCHANGED <<stalled, now, ticks, sessions, messages, active_connections, user_nicknames,
                   broken, inbox, req, sweeper>>

\* the count as it is
LeaveCountUnchanged(count) == count

\* `"count": count - 1`
LeaveCount(count) == count - 1

\* a "leave" frame: `data.get("nickname", current_nickname or "Anônimo")` and
\* the count less one; the connection stays in the receive loop
WsLeave(w, nickname) ==
    /\ ws[w].pc = "receive"
    /\ w \notin broken
    /\ frames > 0
    /\ frames' = frames - 1
    /\ LET s == ws[w].sid
           nick == IF nickname # None THEN nickname
                   ELSE IF ws[w].current_nickname # None THEN ws[w].current_nickname
                   ELSE DefaultNick
           b == BroadcastCall(active_connections, s,
                    [type |-> "user_left", nickname |-> nick,
                     count |-> LeaveCount(GetParticipantCount(active_connections, s))])
       IN /\ bcast' = [bcast EXCEPT ![w] = b]
          /\ ws' = [ws EXCEPT ![w] =
                       [@ EXCEPT !.pc = IF b.active THEN "bcast" ELSE "receive",
                                 !.ret = "receive",
                                 !.data = [NoData EXCEPT !.type = "leave",
                                                         !.nickname = nickname]]]
    /\ UNCHANGED <<stalled, now, ticks, sessions, messages, active_connections, user_nicknames,
                   broken, inbox, req, sweeper>>

\* `if session_id in user_nicknames and current_user_id: ...pop(current_user_id, None)`
CleanUpNickname(un, s, uid) ==
    IF s \in DOMAIN un /\ uid # None
    THEN [un EXCEPT ![s] = Without(@, uid)]
    ELSE un

\* receive_json raises WebSocketDisconnect: the peer has gone
WsDisconnect(w) ==
    /\ ws[w].pc = "receive"
    /\ w \in broken
    /\ LET s == ws[w].sid
           ac == Disconnect(active_connections, w, s)
           b == BroadcastCall(ac, s,
                    [type |-> "user_left",
                     nickname |-> IF ws[w].current_nickname # None
                                  THEN ws[w].current_nickname ELSE Placeholder,
                     count |-> GetParticipantCount(ac, s)])
       IN /\ active_connections' = ac
          /\ bcast' = [Detach(bcast, ac) EXCEPT ![w] = b]
          /\ IF b.active
             THEN /\ ws' = [ws EXCEPT ![w] = [@ EXCEPT !.pc = "bcast", !.ret = "cleanup"]]
                  /\ user_nicknames' = user_nicknames
             ELSE /\ ws' = [ws EXCEPT ![w] = [@ EXCEPT !.pc = "closed",
                                                       !.close = "disconnect"]]
                  /\ user_nicknames' =
                        CleanUpNickname(user_nicknames, s, ws[w].current_user_id)
    /\ UNCHANGED <<stalled, now, ticks, sessions, messages, broken, inbox, req, frames, sweeper>>

\* any other exception in the receive loop (a frame that is not a JSON object)
WsError(w) ==
    /\ ws[w].pc = "receive"
    /\ w \notin broken
    /\ frames > 0
    /\ frames' = frames - 1
    /\ active_connections' = Disconnect(active_connections, w, ws[w].sid)
    /\ bcast' = Detach(bcast, active_connections')
    /\ ws' = [ws EXCEPT ![w] = [@ EXCEPT !.pc = "closed", !.close = "error"]]
    /\ UNCHANGED <<stalled, now, ticks, sessions, messages, user_nicknames, broken, inbox, req, sweeper>>

\* manager.broadcast returns into websocket_endpoint
WsBroadcastReturn(w) ==
    /\ ws[w].pc = "bcast"
    /\ bcast[w].active
    /\ SendEnds(bcast[w])
    /\ ~HasNext(bcast[w])
    /\ inbox' = Delivered(bcast[w])
    /\ active_connections' = ReturnRegistry(w)
    /\ bcast' = ReturnBcast(w)
    /\ IF ws[w].ret = "cleanup"
       THEN /\ ws' = [ws EXCEPT ![w] = [@ EXCEPT !.pc = "closed", !.close = "disconnect"]]
            /\ user_nicknames' =
                  CleanUpNickname(user_nicknames, ws[w].sid, ws[w].current_user_id)
       ELSE /\ ws' = [ws EXCEPT ![w] = [@ EXCEPT !.pc = "receive"]]
            /\ user_nicknames' = user_nicknames
    /\ UNCHANGED <<stalled, now, ticks, sessions, messages, broken, req, frames, sweeper>>

\* the peer drops its transport
PeerDrop(w) ==
    /\ ws[w].pc \in {"accept", "full", "receive", "bcast"}
    /\ w \notin broken
    /\ Cardinality(broken) < MaxDrops
    /\ broken' = broken \cup {w}
    /\ UNCHANGED <<stalled, now, ticks, sessions, messages, active_connections, user_nicknames,
                   ws, inbox, req, bcast, frames, sweeper>>

\* the peer stops reading: what is sent to it is no longer taken
PeerStall(w) ==
    /\ ws[w].pc \in {"receive", "bcast"}
    /\ w \notin broken
    /\ w \notin stalled
    /\ Cardinality(stalled) < MaxStalls
    /\ stalled' = stalled \cup {w}
    /\ UNCHANGED <<now, ticks, sessions, messages, active_connections, user_nicknames,
                   ws, broken, inbox, req, bcast, frames, sweeper>>

\* ---------------------------------------------------------- HTTP handlers
\* pc: "idle" (not yet received), then the store call the handler awaits
\* ("find", "insert", "update", "delete_messages", "delete_session"), "bcast"
\* (in manager.broadcast), "done" (the response is out: `status`, `detail`).
\* `missing` records that a store call of the handler matched no session,
\* `failed_at` the store call that raised, `result` the documents in the body
\* of a read handler's response.
ReqIdle == [op |-> None, pc |-> "idle", sid |-> MissingSession, code |-> <<>>, now |-> 0,
            ttl |-> 0, status |-> 0, detail |-> None, missing |-> FALSE,
            failed_at |-> None, result |-> <<>>]

Starts(r) == /\ req[r].pc = "idle"
             /\ \A q \in ReqIds : q < r => req[q].pc # "idle"

\* the handler goes into manager.broadcast with its response `done` ready,
\* or past it when the session has no connection list
ReqBroadcast(r, s, msg, done) ==
    LET b == BroadcastCall(active_connections, s, msg)
    IN /\ bcast' = [bcast EXCEPT ![r] = b]
       /\ req' = [req EXCEPT ![r] = IF b.active THEN [done EXCEPT !.pc = "bcast"]
                                     ELSE [done EXCEPT !.pc = "done"]]

\* manager.broadcast returns into an HTTP handler, which returns its response
ReqBroadcastReturn(r) ==
    /\ req[r].pc = "bcast"
    /\ bcast[r].active
    /\ SendEnds(bcast[r])
    /\ ~HasNext(bcast[r])
    /\ inbox' = Delivered(bcast[r])
    /\ active_connections' = ReturnRegistry(r)
    /\ bcast' = ReturnBcast(r)
    /\ req' = [req EXCEPT ![r] = [@ EXCEPT !.pc = "done"]]
    /\ UNCHANGED <<stalled, now, ticks, sessions, messages, user_nicknames, ws, broken, frames, sweeper>>

\* create_session: uuid4, generate_session_code, utcnow
CsStart(r, code) ==
    /\ Starts(r)
    /\ req' = [req EXCEPT ![r] = [@ EXCEPT !.op = "create_session", !.pc = "find",
                                           !.sid = r, !.code = code, !.now = now]]
    /\ UNCHANGED <<stalled, now, ticks, sessions, messages, active_connections, user_nicknames,
                   ws, broken, inbox, bcast, frames, sweeper>>

\* create_session: `while await db.sessions.find_one(...): code = generate_session_code()`
CsFind(r, code) ==
    /\ req[r].op = "create_session"
    /\ req[r].pc = "find"
    /\ IF FindLiveCode(req[r].code, req[r].now) # {}
       THEN req' = [req EXCEPT ![r] = [@ EXCEPT !.code = code]]
       ELSE req' = [req EXCEPT ![r] = [@ EXCEPT !.pc = "insert"]]
    /\ UNCHANGED <<stalled, now, ticks, sessions, messages, active_connections, user_nicknames,
                   ws, broken, inbox, bcast, frames, sweeper>>

\* create_session: insert_one, and the response
CsInsert(r) ==
    /\ req[r].op = "create_session"
    /\ req[r].pc = "insert"
    /\ sessions' = sessions \cup {FreeSession(req[r].sid, req[r].code, req[r].now)}
    /\ req' = [req EXCEPT ![r] =
                  [@ EXCEPT !.pc = "done", !.status = 200,
                            !.result = <<FreeSession(req[r].sid, req[r].code, req[r].now)>>]]
    /\ UNCHANGED <<stalled, now, ticks, messages, active_connections, user_nicknames, ws, broken,
                   inbox, bcast, frames, sweeper>>

\* str.upper() on the characters codes are made of here
UpperChar(ch) == CASE ch = "a" -> "A"
                   [] ch = "b" -> "B"
                   [] OTHER -> ch

Upper(code) == [i \in DOMAIN code |-> UpperChar(code[i])]

\* the SessionResponse get_session builds: max_participants is not passed and
\* takes the default of the model class
SessionResponse(session) ==
    [id |-> session.id, code |-> session.code, is_pro |-> session.is_pro,
     message_ttl_minutes |-> session.message_ttl_minutes,
     max_participants |-> DefaultMaxParticipants,
     created_at |-> session.created_at, expires_at |-> session.expires_at]

\* get_session: find_one on the uppercased code with the expiry filter (any
\* one of the matching documents), 404 or the response
GetSession(r, code) ==
    /\ Starts(r)
    /\ LET found == FindLiveCode(Upper(code), now)
       IN IF found = {}
          THEN req' = [req EXCEPT ![r] = [@ EXCEPT !.op = "get_session", !.pc = "done",
                                                  !.code = code, !.now = now,
                                                  !.status = 404,
                                                  !.detail = "Session not found or expired",
                                                  !.missing = TRUE]]
          ELSE \E session \in found :
                  req' = [req EXCEPT ![r] = [@ EXCEPT !.op = "get_session",
                                                      !.pc = "done", !.code = code,
                                                      !.now = now, !.sid = session.id,
                                                      !.status = 200,
                                                      !.result = <<SessionResponse(session)>>]]
    /\ UNCHANGED <<stalled, now, ticks, sessions, messages, active_connections, user_nicknames,
                   ws, broken, inbox, bcast, frames, sweeper>>

\* the expiry filter is left out
StoredMessages(s, t) == {m \in messages : m.session_id = s}

\* db.messages.find({"session_id": s, "expires_at": {"$gt": t}})
LiveMessages(s, t) == {m \in messages : m.session_id = s /\ m.expires_at > t}

\* .sort("created_at", 1): ascending by created_at; the order of documents
\* with equal created_at is the store's, taken here as by id, upwards or
\* downwards
Before(x, y, up) == \/ x.created_at < y.created_at
                    \/ /\ x.created_at = y.created_at
                       /\ IF up THEN x.id <= y.id ELSE x.id >= y.id

\* the sorted list: its i-th document is the one that i documents (itself
\* among them) are not after
SortByCreatedAt(docs, up) ==
    LET rank == [x \in docs |-> Cardinality({y \in docs : Before(y, x, up)})]
    IN [i \in 1..Cardinality(docs) |-> CHOOSE x \in docs : rank[x] = i]

\* .to_list(n)
ToList(cursor, n) == SubSeq(cursor, 1, IF Len(cursor) < n THEN Len(cursor) ELSE n)

\* get_messages: the find, sort and to_list(100), and the response
GetMessages(r, s) ==
    /\ Starts(r)
    /\ \E up \in BOOLEAN :
          req' = [req EXCEPT ![r] =
                     [@ EXCEPT !.op = "get_messages", !.pc = "done", !.sid = s,
                               !.now = now, !.status = 200,
                               !.result = ToList(SortByCreatedAt(LiveMessages(s, now), up),
                                                 ListLimit)]]
    /\ UNCHANGED <<stalled, now, ticks, sessions, messages, active_connections, user_nicknames,
                   ws, broken, inbox, bcast, frames, sweeper>>

\* the default is taken whatever the session says
MessageTtlDefault(session) == FreeTtl

\* `ttl_minutes = session.get("message_ttl_minutes", 10)`
MessageTtl(session) == session.message_ttl_minutes

\* the lookup filters on expires_at as get_session does
CmFindLiveOnly(r, s) ==
    /\ Starts(r)
    /\ IF {d \in FindSession(s) : d.expires_at > now} = {}
       THEN req' = [req EXCEPT ![r] = [@ EXCEPT !.op = "create_message", !.pc = "done",
                                               !.sid = s, !.status = 404,
                                               !.detail = "Session not found",
                                               !.missing = TRUE]]
       ELSE LET session == CHOOSE d \in FindSession(s) : TRUE
            IN req' = [req EXCEPT ![r] = [@ EXCEPT !.op = "create_message",
                                                   !.pc = "insert", !.sid = s,
                                                   !.now = now,
                                                   !.ttl = MessageTtl(session)]]
    /\ UNCHANGED <<stalled, now, ticks, sessions, messages, active_connections, user_nicknames,
                   ws, broken, inbox, bcast, frames, sweeper>>

\* create_message: find_one, 404 or utcnow and the TTL
CmFind(r, s) ==
    /\ Starts(r)
    /\ IF FindSession(s) = {}
       THEN req' = [req EXCEPT ![r] = [@ EXCEPT !.op = "create_message", !.pc = "done",
                                               !.sid = s, !.status = 404,
                                               !.detail = "Session not found",
                                               !.missing = TRUE]]
       ELSE LET session == CHOOSE d \in FindSession(s) : TRUE
            IN req' = [req EXCEPT ![r] = [@ EXCEPT !.op = "create_message",
                                                   !.pc = "insert", !.sid = s,
                                                   !.now = now,
                                                   !.ttl = MessageTtl(session)]]
    /\ UNCHANGED <<stalled, now, ticks, sessions, messages, active_connections, user_nicknames,
                   ws, broken, inbox, bcast, frames, sweeper>>

\* the document create_message builds
Message(r) ==
    [id |-> r, session_id |-> req[r].sid, content |-> "hello", sender_id |-> "u1",
     created_at |-> req[r].now, expires_at |-> req[r].now + req[r].ttl]

\* datetime.isoformat(): the timestamp as text
IsoFormat(t) == <<"iso", t>>

\* the event is broadcast and nothing is stored
CmBroadcastUnstored(r) ==
    /\ req[r].op = "create_message"
    /\ req[r].pc = "insert"
    /\ ReqBroadcast(r, req[r].sid,
          [type |-> "new_message",
           message |-> [Message(r) EXCEPT !.created_at = IsoFormat(@),
                                          !.expires_at = IsoFormat(@)]],
          [req[r] EXCEPT !.status = 200])
    /\ UNCHANGED <<stalled, now, ticks, sessions, messages, active_connections,
                   user_nicknames, ws, broken, inbox, frames, sweeper>>

\* create_message: insert_one, then the new_message broadcast
CmInsert(r) ==
    /\ req[r].op = "create_message"
    /\ req[r].pc = "insert"
    /\ messages' = messages \cup {Message(r)}
    /\ ReqBroadcast(r, req[r].sid,
          [type |-> "new_message",
           message |-> [Message(r) EXCEPT !.created_at = IsoFormat(@),
                                          !.expires_at = IsoFormat(@)]],
          [req[r] EXCEPT !.status = 200])
    /\ UNCHANGED <<stalled, now, ticks, sessions, active_connections, user_nicknames, ws, broken,
                   inbox, frames, sweeper>>

\* the tier is not looked at
AlreadyProNever(session) == FALSE

\* `if session.get("is_pro")`
AlreadyPro(session) == session.is_pro

\* create_upgrade_session: find_one, 404, 400, or the Stripe checkout (which
\* may raise StripeError: 400)
CuCheckout(r, s, stripe_ok) ==
    /\ Starts(r)
    /\ LET found == FindSession(s)
           out == IF found = {} THEN <<404, "Session not found">>
                  ELSE IF AlreadyPro(CHOOSE d \in found : TRUE)
                       THEN <<400, "Session already Pro">>
                  ELSE IF stripe_ok THEN <<200, "checkout_url">>
                  ELSE <<400, "StripeError">>
       IN req' = [req EXCEPT ![r] = [@ EXCEPT !.op = "create_upgrade_session",
                                              !.pc = "done", !.sid = s,
                                              !.status = out[1], !.detail = out[2],
                                              !.missing = (found = {})]]
    /\ UNCHANGED <<stalled, now, ticks, sessions, messages, active_connections, user_nicknames,
                   ws, broken, inbox, bcast, frames, sweeper>>

\* stripe_webhook: a checkout.session.completed event whose metadata names
\* session s (any other event returns success at once): update_one, then
\* the session_upgraded broadcast
WhUpdate(r, completed, s) ==
    /\ Starts(r)
    /\ IF completed
       THEN /\ sessions' = UpgradeOne(sessions, s)
            /\ ReqBroadcast(r, s, SessionUpgraded,
                  [req[r] EXCEPT !.op = "stripe_webhook", !.sid = s, !.status = 200,
                                 !.detail = "success",
                                 !.missing = (FindSession(s) = {})])
       ELSE /\ sessions' = sessions
            /\ bcast' = bcast
            /\ req' = [req EXCEPT ![r] = [@ EXCEPT !.op = "stripe_webhook",
                                                   !.pc = "done", !.status = 200,
                                                   !.detail = "success"]]
    /\ UNCHANGED <<stalled, now, ticks, messages, active_connections, user_nicknames, ws, broken,
                   inbox, frames, sweeper>>

\* secret_upgrade: the code check (403), find_one (404)
SuFind(r, s, code_ok) ==
    /\ Starts(r)
    /\ LET out == IF ~code_ok THEN <<"done", 403, "Invalid code">>
                  ELSE IF FindSession(s) = {} THEN <<"done", 404, "Session not found">>
                  ELSE <<"update", 0, None>>
       IN req' = [req EXCEPT ![r] = [@ EXCEPT !.op = "secret_upgrade", !.pc = out[1],
                                              !.sid = s, !.status = out[2],
                                              !.detail = out[3],
                                              !.missing = code_ok /\ FindSession(s) = {}]]
    /\ UNCHANGED <<stalled, now, ticks, sessions, messages, active_connections, user_nicknames,
                   ws, broken, inbox, bcast, frames, sweeper>>

\* the upgrade also re-times the stored messages of the session
SuUpdateRetiming(r) ==
    /\ req[r].op = "secret_upgrade"
    /\ req[r].pc = "update"
    /\ sessions' = UpgradeOne(sessions, req[r].sid)
    /\ messages' = {IF m.session_id = req[r].sid
                    THEN [m EXCEPT !.expires_at = m.created_at + ProTtl] ELSE m :
                    m \in messages}
    /\ ReqBroadcast(r, req[r].sid, SessionUpgraded,
          [req[r] EXCEPT !.status = 200, !.detail = "upgraded"])
    /\ UNCHANGED <<stalled, now, ticks, active_connections, user_nicknames, ws, broken, inbox,
                   frames, sweeper>>

\* secret_upgrade: update_one, then the session_upgraded broadcast
SuUpdate(r) ==
    /\ req[r].op = "secret_upgrade"
    /\ req[r].pc = "update"
    /\ sessions' = UpgradeOne(sessions, req[r].sid)
    /\ ReqBroadcast(r, req[r].sid, SessionUpgraded,
          [req[r] EXCEPT !.status = 200, !.detail = "upgraded",
                         !.missing = (FindSession(req[r].sid) = {})])
    /\ UNCHANGED <<stalled, now, ticks, messages, active_connections, user_nicknames, ws, broken,
                   inbox, frames, sweeper>>

\* destroy_session: find_one (404)
DsFind(r, s) ==
    /\ Starts(r)
    /\ IF FindSession(s) = {}
       THEN req' = [req EXCEPT ![r] = [@ EXCEPT !.op = "destroy_session", !.pc = "done",
                                               !.sid = s, !.status = 404,
                                               !.detail = "Session not found",
                                               !.missing = TRUE]]
       ELSE req' = [req EXCEPT ![r] = [@ EXCEPT !.op = "destroy_session",
                                               !.pc = "delete_messages", !.sid = s]]
    /\ UNCHANGED <<stalled, now, ticks, sessions, messages, active_connections, user_nicknames,
                   ws, broken, inbox, bcast, frames, sweeper>>

\* destroy_session: db.messages.delete_many({"session_id": session_id})
DsDeleteMessages(r) ==
    /\ req[r].op = "destroy_session"
    /\ req[r].pc = "delete_messages"
    /\ messages' = {m \in messages : m.session_id # req[r].sid}
    /\ req' = [req EXCEPT ![r] = [@ EXCEPT !.pc = "delete_session"]]
    /\ UNCHANGED <<stalled, now, ticks, sessions, active_connections, user_nicknames, ws, broken,
                   inbox, bcast, frames, sweeper>>

\* destroy_session: db.sessions.delete_one, then the session_destroyed broadcast
DsDeleteSession(r) ==
    /\ req[r].op = "destroy_session"
    /\ req[r].pc = "delete_session"
    /\ sessions' = {d \in sessions : d.id # req[r].sid}
    /\ ReqBroadcast(r, req[r].sid, [type |-> "session_destroyed"],
          [req[r] EXCEPT !.status = 200, !.detail = "destroyed"])
    /\ UNCHANGED <<stalled, now, ticks, messages, active_connections, user_nicknames, ws, broken,
                   inbox, frames, sweeper>>

\* the cleanup_expired_messages task: `pc` is "sleep" while the loop runs
\* (between two turns it awaits asyncio.sleep) and "ended" once an exception
\* has left the coroutine; `log` is the last line it logged, `errors` the
\* number of its store calls that raised
SweeperIdle == [pc |-> "sleep", log |-> None, errors |-> 0]

\* store calls that have raised so far
StoreErrors == Cardinality({q \in ReqIds : req[q].failed_at # None}) + sweeper.errors

\* the exception is swallowed and the handler goes on to its broadcast
ReqStoreErrorSwallowed(r) ==
    /\ req[r].pc \in {"find", "insert", "update", "delete_messages", "delete_session"}
    /\ StoreErrors < MaxStoreErrors
    /\ ReqBroadcast(r, req[r].sid, [type |-> "session_destroyed"],
          [req[r] EXCEPT !.status = 200, !.failed_at = req[r].pc])
    /\ UNCHANGED <<stalled, now, ticks, sessions, messages, active_connections, user_nicknames,
                   ws, broken, inbox, frames, sweeper>>

\* an awaited store call raises: the exception leaves the handler, which
\* answers 500 and does nothing more
ReqStoreError(r) ==
    /\ req[r].pc \in {"find", "insert", "update", "delete_messages", "delete_session"}
    /\ StoreErrors < MaxStoreErrors
    /\ req' = [req EXCEPT ![r] = [@ EXCEPT !.pc = "done", !.status = 500,
                                           !.detail = "Internal Server Error",
                                           !.failed_at = req[r].pc]]
    /\ UNCHANGED <<stalled, now, ticks, sessions, messages, active_connections, user_nicknames,
                   ws, broken, inbox, bcast, frames, sweeper>>

\* --------------------------------------------------------- clock, sweeper
\* time passes
Tick(d) ==
    /\ ticks < MaxTicks
    /\ ticks' = ticks + 1
    /\ now' = now + d
    /\ UNCHANGED <<stalled, sessions, messages, active_connections, user_nicknames, ws, broken,
                   inbox, req, bcast, frames, sweeper>>

\* the filter takes the time of creation
ExpiredByCreation(m, t) == m.created_at < t

\* {"expires_at": {"$lt": now}}
Expired(m, t) == m.expires_at < t

\* cleanup_expired_messages: one turn of the loop whose delete_many succeeds
\* and deletes something (a turn that deletes nothing logs nothing and changes
\* no state)
Sweep ==
    /\ sweeper.pc = "sleep"
    /\ {m \in messages : Expired(m, now)} # {}
    /\ messages' = {m \in messages : ~Expired(m, now)}
    /\ sweeper' = [sweeper EXCEPT !.log = "cleaned"]
    /\ UNCHANGED <<stalled, now, ticks, sessions, active_connections, user_nicknames, ws, broken,
                   inbox, req, bcast, frames>>

\* the exception leaves the loop and ends the task
SweepFailEnds ==
    /\ sweeper.pc = "sleep"
    /\ StoreErrors < MaxStoreErrors
    /\ sweeper' = [pc |-> "ended", log |-> "error", errors |-> sweeper.errors + 1]
    /\ UNCHANGED <<stalled, now, ticks, sessions, messages, active_connections, user_nicknames,
                   ws, broken, inbox, req, bcast, frames>>

\* cleanup_expired_messages: one turn of the loop whose delete_many raises:
\* `except Exception` logs the error and the loop goes on to its sleep
SweepFail ==
    /\ sweeper.pc = "sleep"
    /\ StoreErrors < MaxStoreErrors
    /\ sweeper' = [pc |-> "sleep", log |-> "error", errors |-> sweeper.errors + 1]
    /\ UNCHANGED <<stalled, now, ticks, sessions, messages, active_connections, user_nicknames,
                   ws, broken, inbox, req, bcast, frames>>

\* ------------------------------------------------------------------ system
FirstCode == <<"A", "A", "A", "A", "A", "A">>

\* The state a minute after start-up, once the first session has been created
\* and `admitted` connections have been admitted to it, one after the other.
InitWith(nWs, admitted, nReq, nFrames) ==
    /\ now = 1
    /\ ticks = 0
    /\ sessions = {FreeSession(FirstSession, FirstCode, 0)}
    /\ messages = {}
    /\ active_connections =
          IF admitted = 0 THEN <<>> ELSE (FirstSession :> [i \in 1..admitted |-> i])
    /\ user_nicknames = <<>>
    /\ ws = [w \in 1..nWs |->
                IF w <= admitted
                THEN [WsIdle EXCEPT !.pc = "receive", !.sid = FirstSession,
                                    !.max_participants = FreeCap]
                ELSE WsIdle]
    /\ broken = {}
    /\ inbox = [w \in 1..nWs |-> <<>>]
    /\ req = [r \in {100 + i : i \in 1..nReq} |-> ReqIdle]
    /\ bcast = [t \in (1..nWs) \cup {100 + i : i \in 1..nReq} |-> NoBcast]
    /\ frames = nFrames
    /\ sweeper = SweeperIdle
    /\ stalled = {}

\* the connection protocol alone, from an empty registry; MaxWs connections
\* stay below the cap of a free session, so the refusal path is not taken here
InitGateway == InitWith(MaxWs, 0, 0, MaxFrames)

NextGateway ==
    \/ \E w \in WsIds, s \in {FirstSession, MissingSession} : WsLookup(w, s)
    \/ \E w \in WsIds : WsAccept(w)
    \/ \E w \in WsIds, u \in Uids \cup {None}, n \in Nicks \cup {None} : WsJoin(w, u, n)
    \/ \E w \in WsIds, u \in Uids \cup {None}, n \in Nicks \cup {None},
          t \in {"true", "false", None} : WsTyping(w, u, n, t)
    \/ \E w \in WsIds : WsDisconnect(w)
    \/ \E w \in WsIds : WsError(w)
    \/ \E w \in WsIds : BroadcastSend(w)
    \/ \E w \in WsIds : WsBroadcastReturn(w)
    \/ \E w \in WsIds : PeerDrop(w)

SpecGateway == InitGateway /\ [][NextGateway]_vars

\* admission at a session one connection short of its cap
InitAdmission == InitWith(FreeCap - 1 + MaxJoiners, FreeCap - 1, 0, MaxFrames)

NextAdmission ==
    \/ \E w \in WsIds : WsLookup(w, FirstSession)
    \/ \E w \in WsIds : WsRefuse(w)
    \/ \E w \in WsIds : WsAccept(w)
    \/ \E w \in WsIds : WsDisconnect(w)
    \/ \E w \in WsIds : WsError(w)
    \/ \E w \in WsIds : BroadcastSend(w)
    \/ \E w \in WsIds : WsBroadcastReturn(w)
    \/ \E w \in WsIds : PeerDrop(w)

SpecAdmission == InitAdmission /\ [][NextAdmission]_vars

\* the request handlers, the clock and the sweeper, with MaxPeers connections
\* admitted to the first session
Init == InitWith(MaxPeers, MaxPeers, MaxReq, MaxFrames)

Next ==
    \/ \E r \in ReqIds, c \in GenCodes : CsStart(r, c)
    \/ \E r \in ReqIds, c \in GenCodes : CsFind(r, c)
    \/ \E r \in ReqIds : CsInsert(r)
    \/ \E r \in ReqIds, s \in {d.id : d \in sessions} \cup {MissingSession} : CmFind(r, s)
    \/ \E r \in ReqIds : CmInsert(r)
    \/ \E r \in ReqIds, s \in {d.id : d \in sessions} \cup {MissingSession},
          ok \in BOOLEAN : CuCheckout(r, s, ok)
    \/ \E r \in ReqIds, s \in {d.id : d \in sessions} \cup {MissingSession},
          completed \in BOOLEAN : WhUpdate(r, completed, s)
    \/ \E r \in ReqIds, s \in {d.id : d \in sessions} \cup {MissingSession},
          ok \in BOOLEAN : SuFind(r, s, ok)
    \/ \E r \in ReqIds : SuUpdate(r)
    \/ \E r \in ReqIds, s \in {d.id : d \in sessions} \cup {MissingSession} : DsFind(r, s)
    \/ \E r \in ReqIds : DsDeleteMessages(r)
    \/ \E r \in ReqIds : DsDeleteSession(r)
    \/ \E r \in ReqIds : ReqStoreError(r)
    \/ \E t \in Tasks : BroadcastSend(t)
    \/ \E r \in ReqIds : ReqBroadcastReturn(r)
    \/ \E d \in {FreeTtl, SessionLifetime} : Tick(d)
    \/ Sweep
    \/ SweepFail
    \/ \E w \in WsIds : WsDisconnect(w)
    \/ \E w \in WsIds : WsBroadcastReturn(w)
    \/ \E w \in WsIds : PeerDrop(w)

Spec == Init /\ [][Next]_vars

\* joins of admitted connections beside an upgrade by secret code
InitJoin == InitWith(MaxPeers, MaxPeers, MaxUpgrades, MaxFrames)

NextJoin ==
    \/ \E r \in ReqIds, ok \in BOOLEAN : SuFind(r, FirstSession, ok)
    \/ \E r \in ReqIds : SuUpdate(r)
    \/ \E r \in ReqIds : ReqBroadcastReturn(r)
    \/ \E w \in WsIds, u \in Uids \cup {None}, n \in Nicks \cup {None} : WsJoin(w, u, n)
    \/ \E w \in WsIds : WsDisconnect(w)
    \/ \E t \in Tasks : BroadcastSend(t)
    \/ \E w \in WsIds : WsBroadcastReturn(w)
    \/ \E w \in WsIds : PeerDrop(w)

SpecJoin == InitJoin /\ [][NextJoin]_vars

\* fan-out: MaxPeers registered connections, one typing frame, a peer that
\* may stop reading and a peer that may drop.  The event loop resumes a
\* coroutine whose awaited send has ended: every step of a broadcast that can
\* be taken is eventually taken.
InitFanout == InitWith(MaxWs, MaxWs, 0, MaxFrames)

NextFanout ==
    \/ \E w \in WsIds, t \in {"true", "false"} : WsTyping(w, "u1", "ann", t)
    \/ \E w \in WsIds : PeerStall(w)
    \/ \E w \in WsIds : PeerDrop(w)
    \/ \E w \in WsIds : WsDisconnect(w)
    \/ \E w \in WsIds : BroadcastSend(w)
    \/ \E w \in WsIds : WsBroadcastReturn(w)

SpecFanout ==
    /\ InitFanout
    /\ [][NextFanout]_vars
    /\ \A w \in 1..MaxWs : WF_vars(BroadcastSend(w)) /\ WF_vars(WsBroadcastReturn(w))

\* presence: connections that join (under either of two sender ids), leave,
\* fail and disconnect, from an empty registry
PresenceUids == {"u1", "u2"}

InitPresence == InitWith(MaxPresenceWs, 0, 0, MaxPresenceFrames)

NextPresence ==
    \/ \E w \in WsIds : WsLookup(w, FirstSession)
    \/ \E w \in WsIds : WsAccept(w)
    \/ \E w \in WsIds, u \in PresenceUids \cup {None}, n \in Nicks \cup {None} :
          WsJoin(w, u, n)
    \/ \E w \in WsIds, n \in Nicks \cup {None} : WsLeave(w, n)
    \/ \E w \in WsIds : WsDisconnect(w)
    \/ \E w \in WsIds : WsError(w)
    \/ \E w \in WsIds : BroadcastSend(w)
    \/ \E w \in WsIds : WsBroadcastReturn(w)
    \/ \E w \in WsIds : PeerDrop(w)

SpecPresence == InitPresence /\ [][NextPresence]_vars

\* the read handlers beside session creation, sending, the clock and the
\* sweeper: no connection is registered, and the store holds either no message
\* or a backlog of ListLimit + 1 messages sent to the first session in the
\* minutes 0 and 1
Backlog == {[id |-> 1000 + i, session_id |-> FirstSession, content |-> "hello",
             sender_id |-> "u1", created_at |-> i % 2, expires_at |-> (i % 2) + FreeTtl] :
            i \in 1..(ListLimit + 1)}

ReadCodes == GenCodes \cup {<<"a", "a", "a", "a", "a", "a">>, <<"A", "a", "A", "a", "A", "b">>,
                            <<"B", "B", "B", "B", "B", "B">>}

InitReads ==
    /\ now = 1
    /\ ticks = 0
    /\ sessions = {FreeSession(FirstSession, FirstCode, 0)}
    /\ messages \in {{}, Backlog}
    /\ active_connections = <<>>
    /\ user_nicknames = <<>>
    /\ ws = <<>>
    /\ broken = {}
    /\ inbox = <<>>
    /\ req = [r \in {100 + i : i \in 1..MaxReq} |-> ReqIdle]
    /\ bcast = [t \in {100 + i : i \in 1..MaxReq} |-> NoBcast]
    /\ frames = 0
    /\ sweeper = SweeperIdle
    /\ stalled = {}

NextReads ==
    \/ \E r \in ReqIds, c \in GenCodes : CsStart(r, c)
    \/ \E r \in ReqIds, c \in GenCodes : CsFind(r, c)
    \/ \E r \in ReqIds : CsInsert(r)
    \/ \E r \in ReqIds, c \in ReadCodes : GetSession(r, c)
    \/ \E r \in ReqIds, s \in {d.id : d \in sessions} \cup {MissingSession} :
          GetMessages(r, s)
    \/ \E r \in ReqIds, s \in {d.id : d \in sessions} \cup {MissingSession} : CmFind(r, s)
    \/ \E r \in ReqIds : CmInsert(r)
    \/ \E d \in {FreeTtl, SessionLifetime} : Tick(d)
    \/ Sweep
    \/ SweepFail

SpecReads == InitReads /\ [][NextReads]_vars

\* the sweeper's loop never stops taking turns, and its store call does not
\* fail forever: a turn that would delete something is eventually taken
SpecSweeper == InitReads /\ [][NextReads]_vars /\ WF_vars(Sweep)

\* The lookup by code beside the two upgrade paths: requests only, no
\* connection is open, so the session_upgraded broadcast finds no list and
\* returns at once.
InitLookup == InitWith(0, 0, MaxReq, 0)

NextLookup ==
    \/ \E r \in ReqIds, c \in GenCodes : CsStart(r, c)
    \/ \E r \in ReqIds, c \in GenCodes : CsFind(r, c)
    \/ \E r \in ReqIds : CsInsert(r)
    \/ \E r \in ReqIds, c \in ReadCodes : GetSession(r, c)
    \/ \E r \in ReqIds, s \in {d.id : d \in sessions} \cup {MissingSession},
          completed \in BOOLEAN : WhUpdate(r, completed, s)
    \/ \E r \in ReqIds, s \in {d.id : d \in sessions} \cup {MissingSession},
          ok \in BOOLEAN : SuFind(r, s, ok)
    \/ \E r \in ReqIds : SuUpdate(r)
    \/ \E d \in {FreeTtl, SessionLifetime} : Tick(d)

SpecLookup == InitLookup /\ [][NextLookup]_vars

\* ------------------------------------------------------------------ claims
InRegistry(w) == \E s \in DOMAIN active_connections : w \in Range(active_connections[s])

C1_State ==
    \A w \in WsIds :
        /\ (ws[w].pc = "full" \/ ws[w].close \in {"full", "aborted"}) => ~InRegistry(w)
        /\ (ws[w].pc = "full" \/ ws[w].close = "aborted") => inbox[w] = <<>>
        /\ ws[w].close = "full" =>
              /\ Len(inbox[w]) = 1
              /\ inbox[w][1].type = "error"
              /\ inbox[w][1].code = "SESSION_FULL"
              /\ \A d \in FindSession(ws[w].sid) :
                    inbox[w][1].max_participants = d.max_participants

C1_Step ==
    \A w \in WsIds :
        /\ (/\ ws[w].pc = "idle" /\ ws'[w].pc # "idle"
            /\ \E d \in FindSession(ws'[w].sid) :
                  GetParticipantCount(active_connections, d.id) >= d.max_participants)
           => ws'[w].pc = "full" /\ active_connections' = active_connections
        /\ (ws[w].pc = "full" /\ ws'[w].pc # "full")
           => ws'[w].pc = "closed" /\ active_connections' = active_connections

\* C1: a connection attempt that finds count(sessionId) >= max_participants is
\* refused: it takes the refusal path, is sent exactly one error/SESSION_FULL
\* event carrying the cap and is then closed, it is never in the Connection
\* Registry, and none of its steps changes the registry.
C1_AdmissionControl == [][C1_Step /\ C1_State']_vars

\* a sixth attempt at a session holding five connections has been refused
C1_Witness ==
    \E w \in WsIds :
        /\ ws[w].close = "full"
        /\ GetParticipantCount(active_connections, ws[w].sid) = FreeCap
        /\ Len(inbox[w]) = 1

\* C2: createSession never returns a code equal to the code of another live
\* (non-expired) session, also when createSession calls interleave between the
\* uniqueness lookup and the insert: no two live sessions share a code.
C2_LiveCodesDistinct ==
    \A d1 \in sessions, d2 \in sessions :
        (d1.id # d2.id /\ d1.expires_at > now /\ d2.expires_at > now)
        => d1.code # d2.code

C3_Step ==
    \A t \in Tasks :
        (/\ bcast[t].active /\ ~bcast'[t].active
         /\ ~bcast[t].mutated)
        => LET b == bcast'[t]
               s == b.sid
           IN /\ b.got \cup Range(b.dead) = Range(b.snap)
              /\ b.got \cap Range(b.dead) = {}
              /\ \A c \in b.got : \E i \in 1..Len(inbox'[c]) : inbox'[c][i] = b.msg
              /\ \A c \in Range(b.dead) :
                    \A k \in DOMAIN active_connections' :
                        c \notin Range(active_connections'[k])
              /\ \A c \in b.got : c \in Range(active_connections'[s])
              /\ GetParticipantCount(active_connections', s) = Cardinality(b.got)

C4_Step ==
    \A r \in ReqIds :
        /\ (req[r].pc = "idle" /\ req'[r].op = "create_message" /\ req'[r].pc = "insert")
           => /\ req'[r].now = now
              /\ \E d \in sessions : /\ d.id = req'[r].sid
                                     /\ req'[r].ttl = d.message_ttl_minutes
        /\ (/\ req[r].op = "create_message" /\ req[r].pc = "insert"
            /\ req'[r].pc # "insert" /\ req'[r].status = 200)
           => \E m \in messages' \ messages :
                 /\ messages' = messages \cup {m}
                 /\ m.id = r
                 /\ m.session_id = req[r].sid
                 /\ m.created_at = req[r].now
                 /\ m.expires_at - m.created_at = req[r].ttl

C4_State ==
    \A m \in messages :
        /\ m.expires_at - m.created_at \in {FreeTtl, ProTtl}
        /\ \A d \in sessions :
              (d.id = m.session_id /\ ~d.is_pro) => m.expires_at - m.created_at = FreeTtl

\* C4: sendMessage reads the owning session's message_ttl_minutes when it looks
\* the session up and stores a message whose expires_at - created_at is exactly
\* that value: the free TTL before an upgrade, the Pro TTL after it.
C4_MessageTtl == [][C4_Step /\ C4_State']_vars

\* a message sent to an upgraded session lives the Pro TTL
C4_Witness ==
    \E m \in messages, d \in sessions :
        d.id = m.session_id /\ d.is_pro /\ m.expires_at - m.created_at = ProTtl

\* C5: a stored message is never mutated: every step, an upgrade by webhook or
\* by secret code among them, leaves each stored message exactly as it is or
\* deletes it.
C5_MessagesImmutable ==
    [][\A m \in messages : m \in messages' \/ \A n \in messages' : n.id # m.id]_vars

\* a session upgraded after a message was sent: the message keeps its free expiry
C5_Witness ==
    \E m \in messages, d \in sessions, r \in ReqIds :
        /\ d.id = m.session_id /\ d.is_pro
        /\ m.expires_at = m.created_at + FreeTtl
        /\ req[r].op \in {"secret_upgrade", "stripe_webhook"}
        /\ req[r].sid = d.id /\ req[r].pc = "done" /\ req[r].status = 200

\* C6: when destroySession's session-record delete fails after its bulk message
\* delete succeeded, the caller gets the failure (500) and that call broadcasts
\* nothing; a session_destroyed event reaches a channel only from a call whose
\* session-record delete succeeded.
C6_DestroyFailureNotBroadcast ==
    /\ \A r \in ReqIds :
          (req[r].op = "destroy_session" /\ req[r].failed_at = "delete_session")
          => req[r].pc = "done" /\ req[r].status = 500 /\ bcast[r] = NoBcast
    /\ \A w \in WsIds : \A i \in 1..Len(inbox[w]) :
          inbox[w][i].type = "session_destroyed"
          => \E r \in ReqIds : /\ req[r].op = "destroy_session"
                               /\ req[r].status = 200
                               /\ req[r].failed_at = None

\* the messages of a session are gone, its record is not: the second delete failed
C6_Witness ==
    \E r \in ReqIds, q \in ReqIds :
        /\ req[r].op = "destroy_session" /\ req[r].failed_at = "delete_session"
        /\ req[q].op = "create_message" /\ req[q].sid = req[r].sid /\ req[q].status = 200
        /\ FindSession(req[r].sid) # {}
        /\ \A m \in messages : m.session_id # req[r].sid

\* C7: whenever a session_destroyed event is being broadcast for session S, the
\* store holds neither the session record of S nor any message of S, also when
\* sendMessage calls for S run concurrently with destroySession.
C7_DestroyedMeansGone ==
    \A t \in Tasks :
        (bcast[t].active /\ bcast[t].msg.type = "session_destroyed")
        => /\ FindSession(bcast[t].sid) = {}
           /\ \A m \in messages : m.session_id # bcast[t].sid

\* C8: when the handler of an admitted connection ends, by disconnect or by any
\* other per-connection error, the channel is unregistered, the sender's
\* presence entry is cleared, and user_left has been broadcast with the
\* last-known nickname (the placeholder if no join happened).
C8_ConnectionEndCleanup ==
    [][\A w \in WsIds :
          (ws[w].pc \in {"receive", "bcast"} /\ ws'[w].pc = "closed")
          => /\ \A k \in DOMAIN active_connections' :
                   w \notin Range(active_connections'[k])
             /\ (ws[w].current_user_id # None /\ ws[w].sid \in DOMAIN user_nicknames')
                => ws[w].current_user_id \notin DOMAIN user_nicknames'[ws[w].sid]
             /\ bcast'[w].msg.type = "user_left"
             /\ bcast'[w].msg.nickname = IF ws[w].current_nickname # None
                                         THEN ws[w].current_nickname ELSE Placeholder]_vars

\* C9: upgradeToPro on a session id that has no session record fails with
\* NotFound on the webhook path and on the secret-upgrade path, and broadcasts
\* no session_upgraded event.
C9_UpgradeMissingNotFound ==
    \A r \in ReqIds :
        (req[r].op \in {"stripe_webhook", "secret_upgrade"} /\ req[r].missing)
        => req[r].status = 404 /\ bcast[r].msg.type # "session_upgraded"

C10_Step ==
    \A r \in ReqIds :
        (req[r].pc = "idle" /\ req'[r].op = "create_upgrade_session")
        => /\ req'[r].pc = "done"
           /\ FindSession(req'[r].sid) = {}
              => req'[r].status = 404 /\ req'[r].detail = "Session not found"
           /\ (\E d \in FindSession(req'[r].sid) : d.is_pro)
              => req'[r].status = 400 /\ req'[r].detail = "Session already Pro"
           /\ sessions' = sessions
           /\ messages' = messages
           /\ bcast' = bcast
           /\ inbox' = inbox

\* C10: the paid-checkout upgrade request fails with 400 (already Pro) on a
\* session whose is_pro is true and with 404 on a missing session, and it
\* leaves the session record unchanged and broadcasts nothing.
C10_CheckoutConflict == [][C10_Step]_vars

\* a checkout request for an upgraded session was answered 400
C10_Witness ==
    \E r \in ReqIds :
        /\ req[r].op = "create_upgrade_session"
        /\ req[r].status = 400
        /\ req[r].detail = "Session already Pro"
        /\ \E d \in FindSession(req[r].sid) : d.is_pro

\* the step in which request r applies an upgrade to a stored session
C11_Step ==
    \A r \in ReqIds :
        (/\ req[r].status = 0
         /\ req'[r].op \in {"stripe_webhook", "secret_upgrade"}
         /\ req'[r].status = 200
         /\ FindSession(req'[r].sid) # {})
        => /\ \A d \in sessions : d.id # req'[r].sid => d \in sessions'
           /\ \E d \in sessions' :
                 /\ d.id = req'[r].sid
                 /\ d.is_pro
                 /\ d.message_ttl_minutes = ProTtl
                 /\ d.max_participants = ProCap
                 /\ bcast'[r].sid = d.id
                 /\ bcast'[r].msg.type = "session_upgraded"
                 /\ bcast'[r].msg.is_pro
                 /\ bcast'[r].msg.message_ttl_minutes = d.message_ttl_minutes
                 /\ bcast'[r].msg.max_participants = d.max_participants
           /\ bcast'[r].snap = ListOf(active_connections, req'[r].sid)
           /\ bcast'[r].active = (ListOf(active_connections, req'[r].sid) # <<>>)

\* a session_upgraded event a channel has received carries the Pro values, and
\* the session of the channel, while stored, holds them
C11_State ==
    \A w \in WsIds : \A i \in 1..Len(inbox[w]) :
        inbox[w][i].type = "session_upgraded"
        => /\ inbox[w][i].message_ttl_minutes = ProTtl
           /\ inbox[w][i].max_participants = ProCap
           /\ \A d \in FindSession(ws[w].sid) :
                 /\ d.is_pro
                 /\ d.message_ttl_minutes = inbox[w][i].message_ttl_minutes
                 /\ d.max_participants = inbox[w][i].max_participants

\* C11: a successful upgrade of a stored session, by webhook or by secret code,
\* sets is_pro, the Pro message TTL and the Pro participant cap (50) in the
\* store and then broadcasts to the session's channels a session_upgraded
\* event whose message_ttl_minutes and max_participants are the stored values.
C11_UpgradeStoresThenBroadcasts == [][C11_Step /\ C11_State']_vars

\* a channel has received session_upgraded and the store holds the Pro session
C11_Witness ==
    \E w \in WsIds, i \in 1..2, d \in sessions :
        /\ i <= Len(inbox[w])
        /\ inbox[w][i].type = "session_upgraded"
        /\ d.id = ws[w].sid
        /\ d.is_pro /\ d.max_participants = ProCap /\ d.message_ttl_minutes = ProTtl

\* the two codes are equal up to the case of their letters
SameCodeIgnoringCase(c1, c2) ==
    /\ Len(c1) = Len(c2)
    /\ \A i \in 1..Len(c1) :
          \/ c1[i] = c2[i]
          \/ {c1[i], c2[i]} \in {{"a", "A"}, {"b", "B"}}

C12_Step ==
    \A r \in ReqIds :
        (req[r].pc = "idle" /\ req'[r].op = "get_session")
        => LET live == {d \in sessions : /\ SameCodeIgnoringCase(d.code, req'[r].code)
                                         /\ d.expires_at > now}
           IN /\ req'[r].pc = "done"
              /\ live = {} => req'[r].status = 404 /\ req'[r].result = <<>>
              /\ live # {} => /\ req'[r].status = 200
                              /\ Len(req'[r].result) = 1
                              /\ \E d \in live : /\ req'[r].result[1].id = d.id
                                                 /\ req'[r].result[1].code = d.code
                                                 /\ req'[r].result[1].expires_at = d.expires_at
                                                 /\ req'[r].result[1].is_pro = d.is_pro
              /\ sessions' = sessions
              /\ messages' = messages

\* C12: getByCode returns a session only if a stored session with the
\* uppercased code has expires_at strictly after the time of the call, and then
\* returns such a session; for a code whose sessions are all expired (though
\* still stored) or absent it answers NotFound (404).
C12_GetByCodeExpiryFiltered == [][C12_Step]_vars

\* 404 for the code of a session that is stored and expired, asked in lower case
C12_Witness ==
    \E r \in ReqIds, d \in sessions :
        /\ req[r].op = "get_session"
        /\ req[r].status = 404
        /\ req[r].code # d.code
        /\ SameCodeIgnoringCase(d.code, req[r].code)
        /\ d.expires_at <= req[r].now

C13_Step ==
    \A r \in ReqIds :
        (req[r].pc = "idle" /\ req'[r].op = "get_messages")
        => LET live == {m \in messages : /\ m.session_id = req'[r].sid
                                         /\ m.expires_at > now}
               res == req'[r].result
           IN /\ req'[r].pc = "done" /\ req'[r].status = 200
              /\ Len(res) = IF Cardinality(live) < 100 THEN Cardinality(live) ELSE 100
              /\ \A i \in 1..Len(res) : res[i] \in live
              /\ \A i \in 1..Len(res), j \in 1..Len(res) :
                    i < j => res[i] # res[j] /\ res[i].created_at <= res[j].created_at
              /\ \A m \in live \ Range(res) :
                    \A i \in 1..Len(res) : res[i].created_at <= m.created_at
              /\ messages' = messages

\* C13: listActiveMessages returns exactly the messages of the session whose
\* expires_at is after the time of the read, ordered by created_at ascending
\* and cut to the first 100; a message at or past its expires_at is not
\* returned although the sweeper has not deleted it.
C13_ListActiveMessages == [][C13_Step]_vars

\* of 101 live messages sent in two different minutes 100 are returned
C13_Witness ==
    \E r \in ReqIds :
        /\ req[r].op = "get_messages"
        /\ Len(req[r].result) = 100
        /\ req[r].result[1].created_at < req[r].result[100].created_at
        /\ Cardinality({m \in messages : m.session_id = req[r].sid}) > 100

\* nothing is returned of a session whose expired messages are all still stored
C13_WitnessExpired ==
    \E r \in ReqIds :
        /\ req[r].op = "get_messages"
        /\ req[r].result = <<>>
        /\ \E m \in messages : m.session_id = req[r].sid /\ m.expires_at < req[r].now

\* C14: createSession stores and returns a free-tier session: is_pro false,
\* message_ttl_minutes 5, max_participants 5, a code of 6 characters, and
\* expires_at exactly 24 hours after created_at.
C14_FreeTierDefaults ==
    [][\A r \in ReqIds :
          (/\ req[r].op = "create_session" /\ req[r].pc = "insert"
           /\ req'[r].pc = "done" /\ req'[r].status = 200)
          => /\ Len(req'[r].result) = 1
             /\ req'[r].result[1] \in sessions' \ sessions
             /\ LET d == req'[r].result[1]
                IN /\ ~d.is_pro
                   /\ d.message_ttl_minutes = TestedFreeTtl
                   /\ d.max_participants = 5
                   /\ Len(d.code) = 6
                   /\ d.expires_at = d.created_at + 24 * 60]_vars

\* C15: a turn of the sweeper whose store operation succeeds deletes from the
\* store every message whose expires_at has passed and no message whose
\* expires_at is still in the future (a step that changes the stored messages
\* and no request is a turn of the sweeper).
C15_SweepDeletesExactlyExpired ==
    [][(messages' # messages /\ req' = req)
       => /\ messages' \subseteq messages
          /\ \A m \in messages : /\ m.expires_at < now => m \notin messages'
                                 /\ m.expires_at > now => m \in messages'
          /\ sweeper'.log = "cleaned"]_vars

\* after a sweep the store holds a message that expires later and one that
\* expires this very minute, and messages sent earlier are gone
C15_Witness ==
    /\ sweeper.log = "cleaned"
    /\ \E m \in messages : m.expires_at > now
    /\ \E m \in messages : m.expires_at = now
    /\ \A m \in messages : ~(m.expires_at < now)
    /\ Cardinality(messages) < ListLimit

\* messages stored past their expires_at
ExpiredStored == {m \in messages : m.expires_at < now}

\* C16: a sweep whose store operation raises does not stop the sweeper: the
\* loop is still running after it, and when the store does not fail forever
\* every stored message whose expires_at has passed is eventually deleted.
C16_SweeperSurvivesErrors ==
    /\ [](sweeper.pc = "sleep")
    /\ (ExpiredStored # {}) ~> (ExpiredStored = {})

\* a sweep failed, and a later one deleted what had expired
C16_Witness ==
    /\ sweeper.errors > 0
    /\ sweeper.log = "cleaned"
    /\ sweeper.pc = "sleep"
    /\ ExpiredStored = {}

C17_Step ==
    \A r \in ReqIds :
        (req[r].pc = "idle" /\ req'[r].op = "create_message")
        => /\ (\A d \in sessions : d.id # req'[r].sid) <=> req'[r].status = 404
           /\ req'[r].status = 404
              => /\ req'[r].pc = "done"
                 /\ messages' = messages
                 /\ bcast' = bcast
                 /\ inbox' = inbox
           /\ req'[r].status # 404 => req'[r].pc = "insert"

C17_State ==
    \A r \in ReqIds :
        (req[r].op = "create_message" /\ req[r].status = 404)
        => /\ \A m \in messages : m.id # r
           /\ bcast[r] = NoBcast

\* C17: sendMessage answers NotFound (404), storing no message and
\* broadcasting nothing, if and only if no session record with the given id is
\* stored; a session whose expires_at has passed and whose record is still
\* stored accepts the message.
C17_SendNotFoundIffNoRecord == [][C17_Step /\ C17_State']_vars

\* a message accepted by a session past its expires_at, and a send answered 404
C17_Witness ==
    /\ \E m \in messages, d \in sessions :
          d.id = m.session_id /\ d.expires_at < m.created_at
    /\ \E r \in ReqIds : req[r].op = "create_message" /\ req[r].status = 404

C18_Step ==
    \A w \in WsIds :
        (ws[w].pc = "idle" /\ ws'[w].pc # "idle" /\ FindSession(ws'[w].sid) = {})
        => /\ ws'[w].pc = "closed"
           /\ ws'[w].close = "not_found"
           /\ active_connections' = active_connections
           /\ user_nicknames' = user_nicknames
           /\ bcast' = bcast
           /\ inbox' = inbox

C18_State ==
    \A w \in WsIds :
        ws[w].close = "not_found"
        => /\ ~InRegistry(w)
           /\ ws[w].sid \notin DOMAIN active_connections
           /\ inbox[w] = <<>>
           /\ bcast[w] = NoBcast

\* C18: a connection attempt for a session id with no session record is closed
\* at once with the not-found close code and its channel is never registered:
\* the attempt leaves registry and presence table unchanged and broadcasts
\* nothing.
C18_UnknownSessionRefused == [][C18_Step /\ C18_State']_vars

\* an attempt closed as not found while other channels are registered
C18_Witness ==
    \E w \in WsIds :
        /\ ws[w].close = "not_found"
        /\ \E s \in DOMAIN active_connections : Len(active_connections[s]) = 2

\* a "join" frame is being handled by connection w
C19_JoinStep(w) ==
    /\ ws[w].pc = "receive"
    /\ ws'[w].pc = "bcast"
    /\ ws'[w].ret = "receive"
    /\ ws'[w].data.type = "join"

\* C19: a join frame from an admitted connection records sender id ->
\* nickname in the presence table and broadcasts user_joined carrying the
\* current registry count and the max_participants the session has when the
\* join is processed.
C19_JoinCarriesSessionCap ==
    [][\A w \in WsIds :
         C19_JoinStep(w)
         => LET s == ws[w].sid
                msg == bcast'[w].msg
            IN /\ msg.type = "user_joined"
               /\ s \in DOMAIN user_nicknames'
               /\ msg.sender_id \in DOMAIN user_nicknames'[s]
               /\ user_nicknames'[s][msg.sender_id] = msg.nickname
               /\ msg.count = GetParticipantCount(active_connections, s)
               /\ \A d \in FindSession(s) :
                     msg.max_participants = d.max_participants]_vars

\* a frame of type "typing" is being handled by connection w
C20_TypingStep(w) ==
    /\ ws[w].pc = "receive"
    /\ ws'[w].pc = "bcast"
    /\ ws'[w].ret = "receive"
    /\ ws'[w].data.type = "typing"

\* the handler of w leaves the registry and announces it
C20_LeftStep(w) ==
    /\ ws[w].pc = "receive"
    /\ bcast'[w] # bcast[w]
    /\ bcast'[w].msg.type = "user_left"

C20_Step ==
    \A w \in WsIds :
        /\ C20_TypingStep(w)
           => LET data == ws'[w].data
                  msg == bcast'[w].msg
                  s == ws[w].sid
              IN /\ msg.type = "typing"
                 /\ msg.sender_id = data.sender_id
                 /\ msg.nickname = data.nickname
                 /\ msg.is_typing = IF data.is_typing = None THEN "false"
                                    ELSE data.is_typing
                 /\ s \in DOMAIN active_connections
                 /\ bcast'[w].snap = active_connections[s]
                 /\ w \in Range(bcast'[w].snap)
                 /\ UNCHANGED <<active_connections, user_nicknames, sessions, messages>>
        /\ C20_LeftStep(w)
           => LET s == ws[w].sid
              IN /\ \A k \in DOMAIN active_connections' :
                        w \notin Range(active_connections'[k])
                 /\ bcast'[w].msg.count = GetParticipantCount(active_connections', s)
                 /\ s \in DOMAIN active_connections'
                    => bcast'[w].snap = active_connections'[s]
        /\ (/\ bcast[w].active /\ ~bcast'[w].active /\ ~bcast[w].mutated
            /\ bcast[w].msg.type \in {"typing", "user_left"})
           => \A c \in Range(bcast'[w].snap) :
                 c \notin Range(bcast'[w].dead)
                 => /\ c \in bcast'[w].got
                    /\ \E i \in 1..Len(inbox'[c]) : inbox'[c][i] = bcast'[w].msg

C21_LeaveStep(w) ==
    /\ ws[w].pc = "receive"
    /\ ws'[w].pc = "bcast"
    /\ ws'[w].ret = "receive"
    /\ ws'[w].data.type = "leave"

C21_Step ==
    \A w \in WsIds :
        C21_LeaveStep(w)
        => LET s == ws[w].sid
           IN /\ bcast'[w].msg.type = "user_left"
              /\ bcast'[w].msg.count = GetParticipantCount(active_connections, s) - 1
              /\ active_connections' = active_connections
              /\ w \in Range(active_connections'[s])

\* a connection in its receive loop, or broadcasting from it, whose transport
\* has not dropped is registered
C21_State ==
    \A w \in WsIds :
        (ws[w].pc \in {"receive", "bcast"} /\ w \notin broken) => InRegistry(w)

\* C21: a leave frame broadcasts user_left with count equal to the current
\* registry count minus 1 and does not unregister the sender's channel: the
\* channel stays registered until its transport disconnects.
C21_LeaveKeepsChannel == [][C21_Step /\ C21_State']_vars

\* a connection has sent leave beside one other participant: it is back in
\* its receive loop, still registered, and was itself told count 1 of 2
C21_Witness ==
    \E w \in WsIds :
        /\ ws[w].data.type = "leave"
        /\ ws[w].pc = "receive"
        /\ w \notin broken
        /\ GetParticipantCount(active_connections, ws[w].sid) = 2
        /\ w \in Range(active_connections[ws[w].sid])
        /\ inbox[w] # <<>>
        /\ inbox[w][Len(inbox[w])].type = "user_left"
        /\ inbox[w][Len(inbox[w])].count = 1

\* C22: when a broadcast call returns, a send has been attempted to every
\* channel that was registered for the session at call time and is still
\* registered, whatever other connection tasks registered or unregistered
\* while the call was suspended in a send (channels register once, so a
\* channel of the list at call time that is listed at the return was listed
\* throughout).
C22_NoChannelSkipped ==
    [][\A t \in Tasks :
          (bcast[t].active /\ ~bcast'[t].active)
          => \A c \in Range(bcast'[t].snap) :
                c \in Range(ListOf(active_connections, bcast[t].sid))
                => c \in bcast'[t].got \cup Range(bcast'[t].dead)]_vars

\* C23: in every reachable state the number of channels registered for a
\* session is at most the session's max_participants.
C23_CountWithinCap ==
    \A d \in sessions :
        GetParticipantCount(active_connections, d.id) <= d.max_participants

\* the handler of w runs manager.disconnect for its own websocket
C24_OwnRemoval(w) ==
    /\ ws[w].pc = "receive"
    /\ \/ ws'[w].pc = "bcast" /\ ws'[w].ret = "cleanup"
       \/ ws'[w].pc = "closed"

\* the registry after the step is the registry before it less the channels in
\* `gone` of session s, the others in their places
C24_OnlyRemoved(gone, s) ==
    /\ ListOf(active_connections', s) =
          SelectSeq(ListOf(active_connections, s), LAMBDA c : c \notin gone)
    /\ GetParticipantCount(active_connections', s) =
          Cardinality(Range(ListOf(active_connections, s)) \ gone)
    /\ \A k \in (DOMAIN active_connections \cup DOMAIN active_connections') \ {s} :
          ListOf(active_connections', k) = ListOf(active_connections, k)

C24_Step ==
    /\ \A w \in WsIds : C24_OwnRemoval(w) => C24_OnlyRemoved({w}, ws[w].sid)
    /\ \A t \in Tasks :
          (bcast[t].active /\ ~bcast'[t].active)
          => C24_OnlyRemoved(Range(bcast'[t].dead), bcast[t].sid)

\* no channel is listed twice
C24_State ==
    \A s \in DOMAIN active_connections :
        \A i, j \in 1..Len(active_connections[s]) :
            active_connections[s][i] = active_connections[s][j] => i = j

\* C24: a channel is removed from the registry exactly once: the removal by
\* the connection's own disconnect handling and the removal of the dead
\* channels when a broadcast returns each take out the channels they name that
\* are still listed and nothing else, so that whichever runs second for a
\* channel changes nothing, and the count of the remaining channels is right.
C24_RemovedExactlyOnce == [][C24_Step /\ C24_State']_vars

\* w was evicted when a broadcast that nobody disturbed returned, its own
\* disconnect handling ran afterwards, and the other channel is still the one
\* registered
C24_Witness ==
    \E w, c \in WsIds :
        /\ w # c
        /\ ws[w].close = "disconnect"
        /\ \E t \in Tasks : /\ ~bcast[t].active /\ ~bcast[t].mutated
                            /\ w \in Range(bcast[t].dead)
        /\ active_connections = (ws[w].sid :> <<c>>)

\* the other order: w's own handling removed it while a broadcast that had
\* already found the send to w failing was still running
C24_WitnessOwnFirst ==
    \E w, c \in WsIds :
        /\ w # c
        /\ ws[w].close = "disconnect"
        /\ \E t \in Tasks : /\ ~bcast[t].active /\ bcast[t].mutated
                            /\ w \in Range(bcast[t].dead)
        /\ active_connections = (ws[w].sid :> <<c>>)

\* C25: in every reachable state the registry holds no session entry with an
\* empty channel list, and get_participant_count of a session is 0 exactly
\* when the session has no entry (so unregistering the last channel of a
\* session removes its entry).
C25_NoEmptyEntry ==
    /\ \A s \in DOMAIN active_connections : active_connections[s] # <<>>
    /\ \A s \in DOMAIN active_connections \cup {FirstSession, MissingSession} :
          GetParticipantCount(active_connections, s) = 0
          <=> s \notin DOMAIN active_connections

\* the only channel of the session was registered and has been unregistered
\* by its own handler: the registry is empty again
C25_Witness ==
    \E w \in WsIds :
        /\ ws[w].close \in {"disconnect", "error"}
        /\ ws[w].sid = FirstSession
        /\ \A v \in WsIds \ {w} : ws[v].pc = "idle"
        /\ active_connections = <<>>
        /\ GetParticipantCount(active_connections, FirstSession) = 0

\* C26: clearing the last nickname of a session removes the session's entry
\* from the presence table: the table never holds a session with an empty
\* nickname map, so that once every joined participant has disconnected there
\* is no entry for the session.
C26_NoEmptyPresenceEntry ==
    \A s \in DOMAIN user_nicknames : DOMAIN user_nicknames[s] # {}

\* the participant ids the presence table records for session s
Present(un, s) == IF s \in DOMAIN un THEN DOMAIN un[s] ELSE {}

\* a presence entry appears only in the step that handles a join frame, for
\* the frame's sender id
C27_CreatedByJoin ==
    \A s \in DOMAIN user_nicknames' :
        \A u \in Present(user_nicknames', s) \ Present(user_nicknames, s) :
            \E w \in WsIds : /\ ws[w].pc = "receive"
                             /\ ws[w].sid = s
                             /\ ws'[w].data.type = "join"
                             /\ ws'[w].data.sender_id = u
                             /\ ws'[w].current_user_id = u

\* a joined connection whose leave frame has been handled is no longer in
\* the presence table (unless another connection joined under the same id)
C27_RemovedByLeave ==
    \A w \in WsIds :
        (/\ ws[w].data.type = "leave"
         /\ ws[w].pc = "receive"
         /\ ws[w].current_user_id # None
         /\ \A v \in WsIds \ {w} : ws[v].current_user_id # ws[w].current_user_id)
        => ws[w].current_user_id \notin Present(user_nicknames, ws[w].sid)

\* C27: a participant's presence entry is created only by a join frame, never
\* by the raw connection, and is removed when the participant sends an
\* explicit leave frame.
C27_PresenceByJoinUntilLeave == [][C27_CreatedByJoin /\ C27_RemovedByLeave']_vars

C27_OnlyCreatedByJoin == [][C27_CreatedByJoin]_vars

\* C28: in every reachable state every participant id the presence table
\* records for a session is the id of a connection that is registered for
\* that session: no presence entry outlives its connection.
C28_PresenceHasConnection ==
    \A s \in DOMAIN user_nicknames :
        \A u \in DOMAIN user_nicknames[s] :
            \E w \in WsIds : /\ ws[w].sid = s
                             /\ ws[w].current_user_id = u
                             /\ w \in Range(ListOf(active_connections, s))

\* C29: a peer that stops taking data does not stall the fan-out: every
\* broadcast call that has begun eventually returns (having attempted every
\* channel the list iterator reaches), although the send to one channel never
\* ends.
C29_FanoutNotStalled ==
    \A t \in 1..MaxWs : bcast[t].active ~> ~bcast[t].active

\* the stored document that the new_message event e announces is in `docs`
C30_StoredIn(docs, e) ==
    \E m \in docs : /\ m.id = e.message.id
                    /\ m.session_id = e.message.session_id
                    /\ IsoFormat(m.created_at) = e.message.created_at
                    /\ IsoFormat(m.expires_at) = e.message.expires_at

\* manager.broadcast is called with a new_message event by task t
C30_CallBegins(t) ==
    /\ bcast'[t] # bcast[t]
    /\ ~bcast[t].active
    /\ bcast'[t].msg.type = "new_message"

\* a send of a new_message event by task t begins
C30_SendBegins(t) ==
    /\ bcast'[t].active
    /\ bcast'[t].msg.type = "new_message"
    /\ ~bcast[t].active \/ bcast'[t].idx # bcast[t].idx

C30_Step ==
    /\ \A t \in Tasks :
          C30_CallBegins(t)
          => /\ C30_StoredIn(messages', bcast'[t].msg)
             /\ t \in ReqIds
             /\ req[t].pc = "insert"
             /\ bcast'[t].msg.message.id = t
    /\ \A c \in WsIds :
          (/\ Len(inbox'[c]) = Len(inbox[c]) + 1
           /\ inbox'[c][Len(inbox'[c])].type = "new_message")
          => \E t \in Tasks : /\ bcast[t].active
                              /\ bcast[t].cur = c
                              /\ bcast[t].msg = inbox'[c][Len(inbox'[c])]

\* a create_message whose insert raised has broadcast nothing
C30_State ==
    \A r \in ReqIds :
        (req[r].op = "create_message" /\ req[r].failed_at = "insert")
        => /\ bcast[r] = NoBcast
           /\ \A m \in messages : m.id # r
           /\ \A c \in WsIds : \A i \in 1..Len(inbox[c]) :
                 inbox[c][i].type = "new_message" => inbox[c][i].message.id # r

\* C30 as amended: a new_message event is broadcast only after the message
\* has been persisted: when manager.broadcast is called with new_message for
\* M, the caller is the create_message handler whose insert of M has just
\* succeeded and M is in the store with the same id, created_at and
\* expires_at; every new_message a channel is sent comes from such a call;
\* and a create_message whose insert fails broadcasts nothing.
C30_PersistedBeforeBroadcast == [][C30_Step /\ C30_State']_vars

\* C30 as stated: whenever a send of new_message for M to a channel begins, M
\* is in the store with the same id, created_at and expires_at.
C30_StoredWhenSent ==
    [][\A t \in Tasks :
          C30_SendBegins(t) => C30_StoredIn(messages', bcast'[t].msg)]_vars

\* both registered channels have been sent new_message for a message that is
\* in the store, and the handler has answered 200
C30_Witness ==
    \E r \in ReqIds :
        /\ req[r].op = "create_message"
        /\ req[r].pc = "done"
        /\ req[r].status = 200
        /\ \E m \in messages : m.id = r
        /\ \A c \in WsIds :
              /\ inbox[c] # <<>>
              /\ inbox[c][Len(inbox[c])].type = "new_message"
              /\ inbox[c][Len(inbox[c])].message.id = r
              /\ C30_StoredIn(messages, inbox[c][Len(inbox[c])])

\* an insert has raised: 500, nothing stored, nothing sent
C30_WitnessInsertFails ==
    \E r \in ReqIds :
        /\ req[r].op = "create_message"
        /\ req[r].failed_at = "insert"
        /\ req[r].status = 500

\* a session is created free, and a stored session that is Pro stays Pro with
\* message_ttl_minutes and max_participants not lowered
C31_Step ==
    /\ \A e \in sessions' :
          (\A d \in sessions : d.id # e.id)
          => /\ ~e.is_pro
             /\ e.message_ttl_minutes = FreeTtl
             /\ e.max_participants = FreeCap
    /\ \A d \in sessions : \A e \in sessions' :
          (d.id = e.id /\ d.is_pro)
          => /\ e.is_pro
             /\ e.message_ttl_minutes >= d.message_ttl_minutes
             /\ e.max_participants >= d.max_participants

\* a Pro session has the Pro values, which are above the free ones
C31_State ==
    \A d \in sessions :
        d.is_pro => /\ d.message_ttl_minutes = ProTtl /\ ProTtl > FreeTtl
                    /\ d.max_participants = ProCap /\ ProCap > FreeCap

\* C31: is_pro is monotone: a session starts with is_pro false, and once
\* is_pro is true no operation (an upgrade by either path, a repeated
\* upgrade, a send, a disconnect, a sweep) sets it back to false or lowers
\* message_ttl_minutes or max_participants back to the free-tier values.
C31_ProIsMonotone == [][C31_Step /\ C31_State']_vars

\* the first session has been upgraded twice, by two requests that both
\* answered 200, and is Pro with the Pro values
C31_Witness ==
    \E q, r \in ReqIds :
        /\ q # r
        /\ \A x \in {q, r} : /\ req[x].op \in {"stripe_webhook", "secret_upgrade"}
                             /\ req[x].pc = "done"
                             /\ req[x].sid = FirstSession
                             /\ req[x].status = 200
                             /\ req[x].detail \in {"success", "upgraded"}
                             /\ ~req[x].missing
        /\ req[q].op = "secret_upgrade"
        /\ \E d \in sessions : /\ d.id = FirstSession /\ d.is_pro
                               /\ d.message_ttl_minutes = ProTtl
                               /\ d.max_participants = ProCap

\* a get_session step that answers 200
C32_Returns(r) ==
    /\ req[r].pc = "idle"
    /\ req'[r].op = "get_session"
    /\ req'[r].pc = "done"
    /\ req'[r].status = 200

\* the stored record the answer of request r was built from
C32_Stored(r) == {d \in sessions : d.id = req'[r].sid /\ d.code = Upper(req'[r].code)}

\* C32: get_session returns the session as stored: for every live session,
\* also one upgraded to Pro, the returned is_pro, message_ttl_minutes and
\* max_participants equal the stored record's values (50 for a Pro session).
C32_LookupReturnsStored ==
    [][\A r \in ReqIds :
          C32_Returns(r)
          => \E d \in C32_Stored(r) :
                /\ req'[r].result[1].is_pro = d.is_pro
                /\ req'[r].result[1].message_ttl_minutes = d.message_ttl_minutes
                /\ req'[r].result[1].max_participants = d.max_participants]_vars

\* the part of the answer that is read from the record: id, code, is_pro,
\* message_ttl_minutes and the two dates are the stored ones
C32_LookupReturnsReadFields ==
    [][\A r \in ReqIds :
          C32_Returns(r)
          => \E d \in C32_Stored(r) :
                /\ req'[r].result[1].id = d.id
                /\ req'[r].result[1].code = d.code
                /\ req'[r].result[1].is_pro = d.is_pro
                /\ req'[r].result[1].message_ttl_minutes = d.message_ttl_minutes
                /\ req'[r].result[1].created_at = d.created_at
                /\ req'[r].result[1].expires_at = d.expires_at]_vars

\* a lookup of a Pro session has answered with is_pro true and 60 minutes
C32_ProLookedUp ==
    \E r \in ReqIds :
        /\ req[r].op = "get_session" /\ req[r].pc = "done" /\ req[r].status = 200
        /\ req[r].result[1].is_pro
        /\ req[r].result[1].message_ttl_minutes = ProTtl

====
